---- MODULE Spec2Model ----
(***************************************************************************)
(* Model of the backend emotion / attention detector                      *)
(* (backend/emotion_detector.py) and of the way the WebSocket router      *)
(* hands frames of several students to it                                  *)
(* (backend/routers/websocket_router.py).                                  *)
(*                                                                         *)
(* Real numbers are fixed point integers:                                  *)
(*   thresholds                     micro units (1e-6)                     *)
(*   EAR, gaze ratios, head pose deviation, face distance, lighting        *)
(*                                  milli units (1e-3)                     *)
(*   time                           milliseconds                           *)
(* With these units adapt_thresholds is exact integer arithmetic.          *)
(***************************************************************************)
EXTENDS Integers, Sequences, FiniteSets, TLC

\* ------------------------------------------------------------ bounds
\* number of per-frame calls explored by the general specification
MaxFrames == 3
\* ... by the smoothing specification
MaxSmoothFrames == 8
\* ... by the blink specification
MaxBlinkFrames == 4
\* ... by the threshold specification
MaxThresholdFrames == 2
\* ... by the focus score specification
MaxFocusFrames == 2
\* ... by the specification with two students
MaxStreamFrames == 3
\* frames per run of the engagement specification
MaxEngagementFrames == 2
\* frames per run of the gaze specification
MaxGazeFrames == 2
\* frames per run of the long stream specification
MaxRingFrames == 32
\* frames per run of the noise specification
MaxNoiseFrames == 6

\* ------------------------------------------------------------ helpers
Min(a, b) == IF a < b THEN a ELSE b

Max(a, b) == IF a > b THEN a ELSE b

Abs(a) == IF a < 0 THEN 0 - a ELSE a

\* np.clip(x, lo, hi)
Clip(x, lo, hi) == Min(Max(x, lo), hi)

RECURSIVE SumSeq(_)
SumSeq(s) == IF s = <<>> THEN 0 ELSE Head(s) + SumSeq(Tail(s))

\* np.mean(list(history)), rounded down to the fixed point grid
Mean(s) == SumSeq(s) \div Len(s)

\* a plausible slip: a full buffer gives up its newest entry
DequeAppend_unbounded(q, x, cap) == Append(q, x)

DequeAppend_newest(q, x, cap) ==
  IF Len(q) >= cap THEN Append(SubSeq(q, 1, Len(q) - 1), x) ELSE Append(q, x)

\* deque(maxlen=cap).append(x): the oldest entry is dropped when full
DequeAppend(q, x, cap) == IF Len(q) >= cap THEN Append(Tail(q), x) ELSE Append(q, x)

\* the value None
NONE == "<None>"

\* ------------------------------------------------------------ features
FEATURE_ORDER ==
  << "mouth_movement", "mouth_aspect_ratio", "lip_corner_distance", "jaw_drop",
     "left_eye_movement", "right_eye_movement", "left_eyebrow_movement", "right_eyebrow_movement",
     "left_eyebrow_slope", "right_eyebrow_slope", "eyebrow_asymmetry", "nostril_flare",
     "nose_tip_movement", "left_cheek_position", "right_cheek_position", "jaw_width",
     "mouth_eye_ratio", "pose_yaw", "pose_pitch", "pose_roll", "left_eye_ear",
     "right_eye_ear", "eye_asymmetry", "interocular_norm", "mouth_corner_slope",
     "mouth_curvature", "smile_intensity", "brow_eye_dist_left",
     "brow_eye_dist_right", "brow_eye_asymmetry", "cheek_asymmetry", "jaw_angle_deg",
     "nose_to_mouth", "nose_to_chin_norm", "face_width_norm", "face_height_norm", "face_wh_ratio" >>

\* the keys of the dictionary compute_features returns, in insertion order
FeatKeys ==
  << "mouth_movement", "mouth_aspect_ratio", "lip_corner_distance", "jaw_drop",
     "left_eye_movement", "right_eye_movement", "left_eyebrow_movement", "right_eyebrow_movement",
     "left_eyebrow_slope", "right_eyebrow_slope", "eyebrow_asymmetry", "nostril_flare",
     "nose_tip_movement", "left_cheek_position", "right_cheek_position", "jaw_width",
     "mouth_eye_ratio", "pose_yaw", "pose_pitch", "pose_roll", "left_eye_ear",
     "right_eye_ear", "eye_asymmetry", "interocular_norm", "mouth_corner_slope",
     "mouth_curvature", "smile_intensity", "brow_eye_dist_left",
     "brow_eye_dist_right", "brow_eye_asymmetry", "cheek_asymmetry", "jaw_angle_deg",
     "nose_to_mouth", "nose_to_chin_norm", "face_width_norm", "face_height_norm", "face_wh_ratio" >>

SeqRange(s) == { s[i] : i \in DOMAIN s }

\* estimate_head_pose: (0,0,0) when one of the six anchor landmarks is
\* missing or solvePnP fails, otherwise the solved angles (whole degrees).
estimate_head_pose(lm) ==
  IF lm.n <= 291 \/ ~lm.pnp_ok THEN <<0, 0, 0>> ELSE lm.pose

\* compute_features: a dictionary with one entry per key.  The geometry of
\* a feature is kept symbolic: the value of feature k on landmark set lm is
\* the term <<k, lm.id>>; the three pose features carry the head pose angle.
compute_features(lm) ==
  LET pose == estimate_head_pose(lm)
  IN  [ k \in SeqRange(FeatKeys) |->
          CASE k = "pose_yaw"   -> <<k, pose[1]>>
            [] k = "pose_pitch" -> <<k, pose[2]>>
            [] k = "pose_roll"  -> <<k, pose[3]>>
            [] OTHER            -> <<k, lm.id>> ]

\* the default 0.0 of feat_dict.get(name, 0.0)
FeatDefault == <<"default", 0>>

\* a plausible slip: the vector is built from the dictionary's keys in sorted
\* (here: reversed) order instead of FEATURE_ORDER
vectorize_features_unordered(feat_dict) ==
  [ i \in 1..Len(FEATURE_ORDER) |->
      LET name == FEATURE_ORDER[Len(FEATURE_ORDER) + 1 - i]
      IN  IF name \in DOMAIN feat_dict THEN feat_dict[name] ELSE FeatDefault ]

\* vectorize_features: [feat_dict.get(name, 0.0) for name in FEATURE_ORDER]
vectorize_features(feat_dict) ==
  [ i \in 1..Len(FEATURE_ORDER) |->
      IF FEATURE_ORDER[i] \in DOMAIN feat_dict THEN feat_dict[FEATURE_ORDER[i]] ELSE FeatDefault ]

\* ------------------------------------------------------------ emotion mapping
\* str.lower() on the labels the model uses
Lower(s) ==
  CASE s = "Happy"   -> "happy"
    [] s = "NEUTRAL" -> "neutral"
    [] OTHER         -> s

emotion_to_engagement_neutralPassive(emotion) ==
  LET emotion_lower == Lower(emotion)
  IN  IF emotion_lower \in {"happy", "happiness", "surprised", "surprise"}
        THEN "active"
      ELSE IF emotion_lower \in {"neutral", "neutrality", "sad", "sadness", "disgust", "disgusted"}
        THEN "passive"
      ELSE IF emotion_lower \in {"angry", "anger", "fear", "fearful"}
        THEN "distracted"
      ELSE "passive"

emotion_to_engagement(emotion) ==
  LET emotion_lower == Lower(emotion)
  IN  IF emotion_lower \in {"neutral", "neutrality", "happy", "happiness", "surprised", "surprise"}
        THEN "active"
      ELSE IF emotion_lower \in {"sad", "sadness", "disgust", "disgusted"}
        THEN "passive"
      ELSE IF emotion_lower \in {"angry", "anger", "fear", "fearful"}
        THEN "distracted"
      ELSE "passive"

base_focus ==
  [ happy |-> 85, happiness |-> 85, surprised |-> 80, surprise |-> 80,
    neutral |-> 70, neutrality |-> 70, sad |-> 55, sadness |-> 55,
    angry |-> 35, anger |-> 35, fear |-> 40, fearful |-> 40,
    disgust |-> 30, disgusted |-> 30 ]

\* base_focus.get(emotion_lower, 60)
BaseScore(emotion) ==
  LET emotion_lower == Lower(emotion)
  IN  IF emotion_lower \in DOMAIN base_focus THEN base_focus[emotion_lower] ELSE 60

calculate_focus_level(emotion, gaze_focused) ==
  LET focus  == BaseScore(emotion)
      focus2 == IF ~gaze_focused THEN Max(0, focus - 30) ELSE focus
  IN  Min(100, Max(0, focus2))

\* ------------------------------------------------------------ detector state
\* EmotionDetector.__init__ defaults
smoothing_window == 5

max_blink_duration == 300

DistanceCap == 30

LightingCap == 30

BlinkCap == 10

\* EmotionDetector.__init__; loaded says whether model paths were given
\* (load_model then succeeded, otherwise the constructor raises)
NewDetector(loaded) ==
  [ model                       |-> loaded,
    label_encoder               |-> loaded,
    smoothing_window            |-> smoothing_window,
    recent_predictions          |-> <<>>,
    adaptive_focus_threshold    |-> 350000,
    adaptive_vertical_threshold |-> 400000,
    adaptive_ear_threshold      |-> 200000,
    wearing_glasses             |-> FALSE,
    face_distance               |-> 1000,
    distance_history            |-> <<>>,
    lighting_quality            |-> 1000,
    lighting_history            |-> <<>>,
    blink_history               |-> <<>> ]

\* EmotionDetector(model_path, labels_path, smoothing_window=window)
NewDetectorWith(loaded, window) ==
  [ NewDetector(loaded) EXCEPT !.smoothing_window = window ]

\* detect_glasses: low z variance around the eyes; the previous value when
\* an eye landmark is missing
detect_glasses(d, lm) ==
  IF lm.n <= 387 THEN d.wearing_glasses ELSE lm.zvar_low

\* estimate_face_distance: 70 / max(eye distance in pixels, 1), clipped;
\* 1.0 when an eye landmark is missing
estimate_face_distance(lm) ==
  IF lm.n <= 263 THEN 1000
  ELSE Clip(70000 \div Max(lm.eye_px, 1), 400, 2500)

\* assess_lighting_quality: img.mean, img.std are the grey level mean and
\* standard deviation; 1.0 when the conversion to grey raises (the buffer
\* is no BGR image)
assess_lighting_quality(img) ==
  IF ~img.valid THEN 1000
  ELSE LET brightness_score ==
             IF img.mean < 60 THEN (img.mean * 1000) \div 60
             ELSE IF img.mean > 200 THEN ((255 - img.mean) * 1000) \div 55
             ELSE 1000
           contrast_score == Min(img.std * 20, 1000)
           quality == (brightness_score * 6 + contrast_score * 4) \div 10
       IN  Clip(quality, 300, 1000)

\* EyeTrackingMonitor.adapt_thresholds of the desktop monitor: the same
\* shape with other base values, factors and clamp ranges
\*   distance_factor = 1 + (1 - dist) * 0.5 = (3000 - dist) / 2000        (close)
\*                   = 1 + (dist - 1) * 0.3 = (7000 + 3 dist) / 10000     (far)
\*   focus    = 0.35 * distance_factor * (1.15 | 1.0)
\*   vertical = 0.4 * distance_factor
\*   ear      = 0.2 * (1 + (1 - lighting) * 0.2) * (0.9 | 1.0)
monitor_adapt_thresholds(d) ==
  LET focus == IF d.face_distance < 1000
                 THEN (175 * (3000 - d.face_distance) * (IF d.wearing_glasses THEN 115 ELSE 100)) \div 100
                 ELSE (35 * (7000 + 3 * d.face_distance) * (IF d.wearing_glasses THEN 115 ELSE 100)) \div 100
      vertical == IF d.face_distance < 1000
                    THEN 200 * (3000 - d.face_distance)
                    ELSE 40 * (7000 + 3 * d.face_distance)
      ear == 4 * (6000 - d.lighting_quality) * (IF d.wearing_glasses THEN 9 ELSE 10)
  IN  [ d EXCEPT !.adaptive_focus_threshold    = Clip(focus, 300000, 650000),
                 !.adaptive_vertical_threshold = Clip(vertical, 350000, 700000),
                 !.adaptive_ear_threshold      = Clip(ear, 150000, 280000) ]

adapt_thresholds_lightingSign(d) ==
  LET focus == IF d.face_distance < 1000
                 THEN 4 * (6000 - d.face_distance) * (IF d.wearing_glasses THEN 11 ELSE 10)
                 ELSE (17000 + 3 * d.face_distance) * (IF d.wearing_glasses THEN 11 ELSE 10)
      vertical == IF d.face_distance < 1000
                    THEN 50 * (6000 - d.face_distance)
                    ELSE (25 * (17000 + 3 * d.face_distance)) \div 2
      ear == 2 * (9000 + d.lighting_quality) * (IF d.wearing_glasses THEN 9 ELSE 10)
  IN  [ d EXCEPT !.adaptive_focus_threshold    = Clip(focus, 180000, 350000),
                 !.adaptive_vertical_threshold = Clip(vertical, 220000, 400000),
                 !.adaptive_ear_threshold      = Clip(ear, 150000, 280000) ]

\* adapt_thresholds, in micro units:
\*   distance_factor = 1 + (1 - dist) * 0.2   = (6000 - dist) / 5000      (close)
\*                   = 1 + (dist - 1) * 0.15  = (17000 + 3 dist) / 20000  (far)
\*   focus    = 0.20 * distance_factor * (1.1 | 1.0)
\*   vertical = 0.25 * distance_factor
\*   ear      = 0.2 * (1 + (1 - lighting) * 0.1) * (0.9 | 1.0)
adapt_thresholds(d) ==
  LET focus == IF d.face_distance < 1000
                 THEN 4 * (6000 - d.face_distance) * (IF d.wearing_glasses THEN 11 ELSE 10)
                 ELSE (17000 + 3 * d.face_distance) * (IF d.wearing_glasses THEN 11 ELSE 10)
      vertical == IF d.face_distance < 1000
                    THEN 50 * (6000 - d.face_distance)
                    ELSE (25 * (17000 + 3 * d.face_distance)) \div 2
      ear == 2 * (11000 - d.lighting_quality) * (IF d.wearing_glasses THEN 9 ELSE 10)
  IN  [ d EXCEPT !.adaptive_focus_threshold    = Clip(focus, 180000, 350000),
                 !.adaptive_vertical_threshold = Clip(vertical, 220000, 400000),
                 !.adaptive_ear_threshold      = Clip(ear, 150000, 280000) ]

\* a plausible slip: the test for an already recorded closure is lost, so
\* every closed frame records a new closure start
is_blinking_restart(d, left_ear, right_ear, current_time) ==
  LET closed == (left_ear + right_ear) * 500 < d.adaptive_ear_threshold
      h == d.blink_history
  IN  IF closed
        THEN LET h1 == DequeAppend(h, [state |-> "closed", start_time |-> current_time], BlinkCap)
             IN  [ det   |-> [ d EXCEPT !.blink_history = h1 ],
                   blink |-> current_time - h1[Len(h1)].start_time < max_blink_duration ]
        ELSE LET h1 == IF Len(h) > 0 /\ h[Len(h)].state = "closed"
                         THEN DequeAppend(h, [state |-> "open", start_time |-> current_time], BlinkCap)
                         ELSE h
             IN  [ det |-> [ d EXCEPT !.blink_history = h1 ], blink |-> FALSE ]

\* is_blinking: returns the new detector state and the classification
is_blinking(d, left_ear, right_ear, current_time) ==
  LET threshold == d.adaptive_ear_threshold
      \* avg_ear < threshold, avg_ear = (left_ear + right_ear) / 2
      closed == (left_ear + right_ear) * 500 < threshold
      h == d.blink_history
  IN  IF closed
        THEN LET h1 == IF Len(h) = 0 \/ h[Len(h)].state # "closed"
                         THEN DequeAppend(h, [state |-> "closed", start_time |-> current_time], BlinkCap)
                         ELSE h
                 closure_duration == current_time - h1[Len(h1)].start_time
             IN  [ det   |-> [ d EXCEPT !.blink_history = h1 ],
                   blink |-> closure_duration < max_blink_duration ]
        ELSE LET h1 == IF Len(h) > 0 /\ h[Len(h)].state = "closed"
                         THEN DequeAppend(h, [state |-> "open", start_time |-> current_time], BlinkCap)
                         ELSE h
             IN  [ det |-> [ d EXCEPT !.blink_history = h1 ], blink |-> FALSE ]

\* is_focused_on_screen, lines 836-844: the head deviation allowed at the
\* smoothed face distance, in micro units
HeadForward_unscaled(lm, face_distance) ==
  LET head_threshold == IF face_distance < 1000
                          THEN 400000 + (1000 - face_distance) * 300
                          ELSE (face_distance - 1000) * 60
  IN  lm.head_h * 1000 < head_threshold /\ lm.head_v * 1000 < head_threshold

\* is_focused_on_screen, lines 836-842: head_threshold in micro units,
\*   0.4 + (1 - d) * 0.3 below distance 1.0, 0.3 * (1 + (d - 1) * 0.2) from 1.0 on
HeadThreshold_closeSign(face_distance) ==
  IF face_distance < 1000
    THEN 400000 - (1000 - face_distance) * 300
    ELSE 300000 + (face_distance - 1000) * 60

HeadThreshold(face_distance) ==
  IF face_distance < 1000
    THEN 400000 + (1000 - face_distance) * 300
    ELSE 300000 + (face_distance - 1000) * 60

\* is_focused_on_screen, line 844
HeadForward(lm, face_distance) ==
  /\ lm.head_h * 1000 < HeadThreshold(face_distance)
  /\ lm.head_v * 1000 < HeadThreshold(face_distance)

\* is_focused_on_screen, line 851: either eye's vertical ratio beyond the
\* vertical threshold
LookingUpDown_average(lm, vertical_threshold) ==
  Abs((lm.l_v + lm.r_v) * 500) > vertical_threshold

LookingUpDown(lm, vertical_threshold) ==
  Abs(lm.l_v) * 1000 > vertical_threshold \/ Abs(lm.r_v) * 1000 > vertical_threshold

\* is_focused_on_screen, line 854: both eyes' horizontal ratios within the
\* focus threshold
GazeCentered(lm, focus_threshold) ==
  Abs(lm.l_h) * 1000 < focus_threshold /\ Abs(lm.r_h) * 1000 < focus_threshold

\* is_focused_on_screen, lines 846-870: the label of the gaze
GazeLabel(lm, vertical_threshold, focus_threshold) ==
  LET avg_h == (lm.l_h + lm.r_h) * 500
      avg_v == (lm.l_v + lm.r_v) * 500
  IN  IF LookingUpDown(lm, vertical_threshold)
        THEN IF avg_v < 0 - vertical_threshold THEN "UP" ELSE "DOWN"
      ELSE IF ~GazeCentered(lm, focus_threshold)
        THEN IF avg_h < 0 - focus_threshold THEN "LEFT"
             ELSE IF avg_h > focus_threshold THEN "RIGHT"
             ELSE "CENTER"
      ELSE "CENTER"

\* detect_gaze_direction(left_gaze, right_gaze) on detector state d: the
\* 8-way label from the averages of the two eyes' ratios, vertical first.
\* No caller in the repository.
detect_gaze_direction(d, lm) ==
  LET avg_h == (lm.l_h + lm.r_h) * 500
      avg_v == (lm.l_v + lm.r_v) * 500
      h_threshold == d.adaptive_focus_threshold
      v_threshold == d.adaptive_vertical_threshold
  IN  IF Abs(avg_v) > v_threshold
        THEN IF avg_v < 0 - v_threshold
               THEN IF Abs(avg_h) > h_threshold
                      THEN (IF avg_h < 0 THEN "UP-LEFT" ELSE "UP-RIGHT")
                      ELSE "UP"
               ELSE IF Abs(avg_h) > h_threshold
                      THEN (IF avg_h < 0 THEN "DOWN-LEFT" ELSE "DOWN-RIGHT")
                      ELSE "DOWN"
      ELSE IF Abs(avg_h) > h_threshold
        THEN (IF avg_h < 0 THEN "LEFT" ELSE "RIGHT")
      ELSE "CENTER"

\* is_focused_on_screen, lines 872-884: the focus rules, first match wins
FocusRule_gazeFirst(closed, is_blink, looking_up_down, gaze_centered, head_forward) ==
  IF closed /\ ~is_blink THEN FALSE
  ELSE IF looking_up_down THEN FALSE
  ELSE IF is_blink THEN TRUE
  ELSE gaze_centered /\ head_forward

FocusRule_horizontalOnly(closed, is_blink, looking_up_down, gaze_centered, head_forward) ==
  IF closed /\ ~is_blink THEN FALSE
  ELSE IF is_blink THEN TRUE
  ELSE gaze_centered /\ head_forward

FocusRule(closed, is_blink, looking_up_down, gaze_centered, head_forward) ==
  IF closed /\ ~is_blink THEN FALSE
  ELSE IF is_blink THEN TRUE
  ELSE IF looking_up_down THEN FALSE
  ELSE gaze_centered /\ head_forward

\* is_focused_on_screen, lines 828-891: the decision once is_blinking has
\* run; b is what is_blinking returned
FocusDecision(b, lm) ==
  LET closed == (lm.l_ear + lm.r_ear) * 500 < b.det.adaptive_ear_threshold
  IN  [ det |-> b.det,
        is_focused |-> FocusRule(closed, b.blink,
                                 LookingUpDown(lm, b.det.adaptive_vertical_threshold),
                                 GazeCentered(lm, b.det.adaptive_focus_threshold),
                                 HeadForward(lm, b.det.face_distance)),
        gaze_direction |-> GazeLabel(lm, b.det.adaptive_vertical_threshold,
                                     b.det.adaptive_focus_threshold),
        avg_ear |-> (lm.l_ear + lm.r_ear) * 500,
        blink_called |-> TRUE, is_blink |-> b.blink, closed |-> closed ]

\* is_focused_on_screen, lines 807-826: d3 is the detector after
\* adapt_thresholds
GazeAnalysis(d3, lm, current_time) ==
  IF lm.n <= 477
    \* an eye or iris landmark lookup raises: except branch
    THEN [ det |-> d3, is_focused |-> FALSE, gaze_direction |-> "ERROR", avg_ear |-> 0,
           blink_called |-> FALSE, is_blink |-> FALSE, closed |-> FALSE ]
    ELSE FocusDecision(is_blinking(d3, lm.l_ear, lm.r_ear, current_time), lm)

\* is_focused_on_screen, lines 796-802: the distance estimate enters the
\* history and face_distance becomes the mean of the history
SmoothDistance(d, dist) ==
  [ d EXCEPT !.distance_history = DequeAppend(@, dist, DistanceCap),
             !.face_distance = Mean(DequeAppend(d.distance_history, dist, DistanceCap)) ]

\* is_focused_on_screen: lm carries the frame's landmark geometry
\* (lm.n landmarks; per eye EAR and gaze ratios; head pose deviation).
\* Returns the new detector state, (is_focused, gaze_direction, avg_ear) and
\* what is_blinking saw.
is_focused_on_screen(d, lm, current_time) ==
  GazeAnalysis(
    adapt_thresholds(
      SmoothDistance([ d EXCEPT !.wearing_glasses = detect_glasses(d, lm) ],
                     estimate_face_distance(lm))),
    lm, current_time)

\* ------------------------------------------------------------ per-frame calls
\* Counter(buffer): the distinct labels in order of first occurrence
RECURSIVE CounterKeys(_)
CounterKeys(buf) ==
  IF buf = <<>> THEN <<>>
  ELSE LET rest == CounterKeys(SubSeq(buf, 1, Len(buf) - 1))
           x == buf[Len(buf)]
       IN  IF x \in SeqRange(rest) THEN rest ELSE Append(rest, x)

CounterCount(buf, x) == Cardinality({ i \in DOMAIN buf : buf[i] = x })

\* a plausible slip: a later label with an equal count replaces the best one
RECURSIVE MaxByCountLast(_, _)
MaxByCountLast(keys, buf) ==
  IF Len(keys) = 1 THEN keys[1]
  ELSE LET best == MaxByCountLast(SubSeq(keys, 1, Len(keys) - 1), buf)
           x == keys[Len(keys)]
       IN  IF CounterCount(buf, x) >= CounterCount(buf, best) THEN x ELSE best

\* max(items, key=count): the first of the items with the highest count
RECURSIVE MaxByCount(_, _)
MaxByCount(keys, buf) ==
  IF Len(keys) = 1 THEN keys[1]
  ELSE LET best == MaxByCount(SubSeq(keys, 1, Len(keys) - 1), buf)
           x == keys[Len(keys)]
       IN  IF CounterCount(buf, x) > CounterCount(buf, best) THEN x ELSE best

\* Counter(recent_predictions).most_common(1)[0][0]
most_common(buf) == MaxByCount(CounterKeys(buf), buf)

\* the dictionaries process_frame returns
NoModelResult ==
  [ emotion |-> "neutral", confidence |-> 0, engagement |-> "passive", focus_level |-> 60,
    face_detected |-> FALSE, error |-> "Model not loaded" ]

\* a plausible slip: the defaults of the missing model are returned for a missing face
NoFaceResult_neutral ==
  [ emotion |-> "neutral", confidence |-> 0, engagement |-> "passive", focus_level |-> 60,
    face_detected |-> FALSE ]

NoFaceResult ==
  [ emotion |-> NONE, confidence |-> 0, engagement |-> "distracted", focus_level |-> 0,
    face_detected |-> FALSE ]

ErrorResult(text) ==
  [ emotion |-> NONE, confidence |-> 0, engagement |-> "distracted", focus_level |-> 0,
    face_detected |-> FALSE, error |-> text ]

\* an exception that leaves the call
Raised(text) == [ exception |-> text ]

IsRaised(r) == "exception" \in DOMAIN r

\* what a call did, for the properties: outcome, the vector given to the
\* classifier, the smoothed label, and what the gaze analysis saw
Obs(outcome, X, g) ==
  [ outcome |-> outcome, X |-> X,
    blink_called |-> g.blink_called, is_blink |-> g.is_blink, closed |-> g.closed ]

NoGaze == [ blink_called |-> FALSE, is_blink |-> FALSE, closed |-> FALSE ]

\* a plausible slip: the second subtraction is not floored at 0
GazePenalty_unfloored(level, is_focused_gaze) ==
  IF ~is_focused_gaze THEN level - 40 ELSE level

\* process_frame, lines 622-624: the second reduction for an unfocused gaze
GazePenalty(level, is_focused_gaze) ==
  IF ~is_focused_gaze THEN Max(0, level - 40) ELSE level

\* process_frame, lines 616-644: engagement, focus level and the result
\* dictionary of a tracked frame; g is what is_focused_on_screen returned
TrackedResult(frame, feats, X, smoothed_emotion, g) ==
  IF frame.fail = "engagement"
    \* smoothed_emotion.lower() raises for a label that is not a string
    THEN [ det |-> g.det, res |-> ErrorResult("engagement"), obs |-> Obs("ERROR", X, g) ]
    ELSE [ det |-> g.det,
           res |-> [ emotion          |-> smoothed_emotion,
                     raw_emotion      |-> frame.label,
                     confidence       |-> frame.confidence,
                     engagement       |-> emotion_to_engagement(smoothed_emotion),
                     focus_level      |-> GazePenalty(
                                            calculate_focus_level(smoothed_emotion, g.is_focused),
                                            g.is_focused),
                     face_detected    |-> TRUE,
                     is_focused_gaze  |-> g.is_focused,
                     gaze_direction   |-> g.gaze_direction,
                     eye_openness     |-> g.avg_ear,
                     wearing_glasses  |-> g.det.wearing_glasses,
                     face_distance    |-> g.det.face_distance,
                     lighting_quality |-> g.det.lighting_quality,
                     pose |-> [ yaw   |-> feats["pose_yaw"][2],
                                pitch |-> feats["pose_pitch"][2],
                                roll  |-> feats["pose_roll"][2] ] ],
           obs |-> Obs("TRACKED", X, g) ]

\* process_frame, lines 605-614: d2 is the detector after the raw label
\* was pushed to recent_predictions
Smoothed(d2, frame, feats, X, current_time) ==
  TrackedResult(frame, feats, X,
                IF Len(d2.recent_predictions) >= 2
                  THEN most_common(d2.recent_predictions) ELSE frame.label,
                is_focused_on_screen(d2, frame.lm, current_time))

\* process_frame, lines 591-606: features, classification, push
Classified(d1, frame, feats, current_time) ==
  IF frame.fail = "classify"
    THEN [ det |-> d1, res |-> ErrorResult("classify"),
           obs |-> Obs("ERROR", vectorize_features(feats), NoGaze) ]
    ELSE Smoothed([ d1 EXCEPT !.recent_predictions = DequeAppend(@, frame.label, d1.smoothing_window) ],
                  frame, feats, vectorize_features(feats), current_time)

\* process_frame, lines 565-657: d1 is the detector after the lighting
\* assessment
AfterLighting(d1, frame, current_time) ==
  \* enhance_frame_quality: the cv2 calls run only in poor lighting
  IF d1.lighting_quality < 700 /\ frame.fail = "enhance"
    THEN [ det |-> d1, res |-> Raised("enhance"), obs |-> Obs("RAISED", <<>>, NoGaze) ]
  \* cv2.cvtColor(enhanced_frame), face_mesh.process(rgb)
  ELSE IF ~frame.img.valid \/ frame.fail = "landmarks"
    THEN [ det |-> d1, res |-> Raised("landmarks"), obs |-> Obs("RAISED", <<>>, NoGaze) ]
  ELSE IF ~frame.face
    THEN [ det |-> d1, res |-> NoFaceResult, obs |-> Obs("NO_FACE", <<>>, NoGaze) ]
  \* try:
  ELSE IF frame.fail = "features"
    THEN [ det |-> d1, res |-> ErrorResult("features"), obs |-> Obs("ERROR", <<>>, NoGaze) ]
  ELSE Classified(d1, frame, compute_features(frame.lm), current_time)

\* process_frame, lines 561-563
Lighting(d, lq) ==
  [ d EXCEPT !.lighting_quality = lq, !.lighting_history = DequeAppend(@, lq, LightingCap) ]

\* process_frame(frame) on detector state d at time current_time.
\* frame.img    the pixel buffer (valid BGR image, grey mean and deviation)
\* frame.face   whether FaceMesh finds a face, frame.lm its landmarks
\* frame.label  the classifier's label, frame.confidence its probability
\* frame.fail   the step that raises on this frame ("none" for no failure)
process_frame_modelOnly(d, frame, current_time) ==
  IF ~d.model
    THEN [ det |-> d, res |-> NoModelResult, obs |-> Obs("NO_MODEL", <<>>, NoGaze) ]
    ELSE AfterLighting(Lighting(d, assess_lighting_quality(frame.img)), frame, current_time)

process_frame(d, frame, current_time) ==
  IF ~d.model \/ ~d.label_encoder
    THEN [ det |-> d, res |-> NoModelResult, obs |-> Obs("NO_MODEL", <<>>, NoGaze) ]
    ELSE AfterLighting(Lighting(d, assess_lighting_quality(frame.img)), frame, current_time)

\* process_base64_frame, lines 954-963: an exception of process_frame
\* becomes the error dictionary with str(e)
CatchRaise_reraise(r) == r

CatchRaise(r) ==
  IF IsRaised(r.res)
    THEN [ det |-> r.det, res |-> ErrorResult(r.res.exception), obs |-> r.obs ]
    ELSE r

\* process_base64_frame, lines 934-935: a payload is the sequence of the
\* pieces of the string between its commas; with a comma in the string the
\* second piece is taken, else the whole string
Body(payload) == IF Len(payload) >= 2 THEN payload[2] ELSE payload[1]

\* process_base64_frame, lines 938-940: piece.b64 says whether b64decode
\* accepts the piece, piece.is_image whether cv2.imdecode makes an image of
\* the bytes, piece.image what the bytes picture.  IMREAD_COLOR always
\* gives a 3-channel BGR array.
Decode(piece) == [ piece.image EXCEPT !.img.valid = TRUE ]

\* whether lines 934-942 reach process_frame
Decodes(payload) == Body(payload).b64 = "ok" /\ Body(payload).is_image

\* process_base64_frame(payload)
process_base64_frame(d, payload, current_time) ==
  IF Body(payload).b64 # "ok"
    THEN [ det |-> d, res |-> ErrorResult("b64decode"), obs |-> Obs("DECODE_ERROR", <<>>, NoGaze) ]
  ELSE IF ~Body(payload).is_image
    THEN [ det |-> d, res |-> ErrorResult("Failed to decode image"),
           obs |-> Obs("DECODE_ERROR", <<>>, NoGaze) ]
  ELSE CatchRaise(process_frame(d, Decode(Body(payload)), current_time))

\* ------------------------------------------------------------ inputs
Subjects == {"s1", "s2"}

NominalImg == [ valid |-> TRUE, mean |-> 128, std |-> 60 ]

DarkImg == [ valid |-> TRUE, mean |-> 30, std |-> 10 ]

NominalLm ==
  [ n |-> 478, id |-> 1, pnp_ok |-> TRUE, pose |-> <<5, -3, 1>>, zvar_low |-> FALSE,
    eye_px |-> 70, l_ear |-> 300, r_ear |-> 300,
    l_h |-> 0, l_v |-> 0, r_h |-> 0, r_v |-> 0, head_h |-> 0, head_v |-> 0 ]

NominalFrame ==
  [ img |-> NominalImg, face |-> TRUE, lm |-> NominalLm, label |-> "neutral",
    confidence |-> 90, fail |-> "none" ]

\* the steps of process_frame that can raise
FailSteps == {"enhance", "landmarks", "features", "classify", "engagement"}

\* labels of the 7 emotion model, one label outside it and two spellings
\* that differ from a known label in case only
Labels == {"happy", "surprise", "neutral", "sad", "fear", "angry", "disgust",
           "contempt", "Happy", "NEUTRAL"}

\* the data URL header "data:image/jpeg;base64" and pieces that are no
\* base64 text or no image
Header == [ b64 |-> "bad", is_image |-> FALSE, image |-> NominalFrame ]

NotBase64 == [ b64 |-> "bad", is_image |-> FALSE, image |-> NominalFrame ]

NotImage == [ b64 |-> "ok", is_image |-> FALSE, image |-> NominalFrame ]

\* the data URL of frame f, as the browser sends it
Encoded(f) == << Header, [ b64 |-> "ok", is_image |-> TRUE, image |-> f ] >>

\* the base64 text of frame f without the data URL header
EncodedBare(f) == << [ b64 |-> "ok", is_image |-> TRUE, image |-> f ] >>

\* payloads that do not decode: no base64, no image, the header alone
BadPayloads == { << Header, NotBase64 >>, << Header, NotImage >>, << Header >> }

\* frames of the general specification: tracked, gaze away, eyes shut, no
\* face, a buffer that is no BGR image, and every failing step; the failing
\* enhancement also in poor light, where it runs
Frames ==
  { NominalFrame,
    [ NominalFrame EXCEPT !.label = "disgust" ],
    [ NominalFrame EXCEPT !.label = "disgust", !.lm.l_h = 600, !.lm.r_h = 600 ],
    [ NominalFrame EXCEPT !.lm.l_ear = 100, !.lm.r_ear = 100 ],
    [ NominalFrame EXCEPT !.face = FALSE ],
    [ NominalFrame EXCEPT !.img.valid = FALSE ] }
  \cup { [ NominalFrame EXCEPT !.fail = st ] : st \in FailSteps }
  \cup { [ NominalFrame EXCEPT !.fail = st, !.img = DarkImg ] : st \in {"none", "enhance"} }

\* ------------------------------------------------------------ state
VARIABLES
  det,        \* the detector instance the router hands every frame to
  result,     \* what the last call on det returned (or raised)
  own,        \* per subject: the state of a detector owned by that subject's stream
  ownResult,  \* what own[subject] returns for the last call
  streaming,  \* per subject: whether its stream is open
  now,        \* time.time() in ms
  nframes,    \* number of per-frame calls made
  last,       \* the last call: subject, entry point, frame, observations
  before,     \* det before the last call
  closure,    \* start time of the running eye closure, -1 when the eyes are open
  streak,     \* [label, n]: the last n calls were tracked frames with raw label `label`
  mono,       \* of the running eye closure: [sustained, blink_after]: a frame of it was
              \* classified sustained; a frame after that one was classified a blink
  task,       \* per handler coroutine of the server: where it stands
  running,    \* the coroutine the event loop is executing, "" between coroutines
  roster,     \* the students in the session document of the database
  leaveApi,   \* per student: where the POST /leave request stands
  wsConn,     \* per student: where the student's WebSocket handler stands
  inbox       \* per student: the student_leave messages sent to the teacher

vars == << det, result, own, ownResult, streaming, now, nframes, last, before, closure, streak,
           mono, task, running, roster, leaveApi, wsConn, inbox >>

\* the handler coroutines of one server process: two student WebSockets,
\* a POST /detect request and a POST /detect-upload request
Tasks == {"ws1", "ws2", "detect", "upload"}

\* the variables of the event loop
loopVars == << task, running >>

\* every handler awaits its first message or request body
InitLoop ==
  /\ task = [ t \in Tasks |-> "waiting" ]
  /\ running = ""

\* the variables of a student's departure
leaveVars == << roster, leaveApi, wsConn, inbox >>

\* every student has joined the session and holds an open WebSocket; the
\* teacher's WebSocket is connected throughout
InitLeave ==
  /\ roster = Subjects
  /\ leaveApi = [ s \in Subjects |-> "idle" ]
  /\ wsConn = [ s \in Subjects |-> "open" ]
  /\ inbox = [ s \in Subjects |-> 0 ]

\* the variables of the server around the detector
serverVars == << loopVars, leaveVars >>

NoResult == [ none |-> TRUE ]

NoCall == [ subject |-> "", api |-> "", frame |-> NominalFrame, decoded |-> FALSE, dt |-> 0,
            obs |-> Obs("NONE", <<>>, NoGaze) ]

\* the state after the construction of detector d
InitDetector(d, open) ==
  /\ det = d
  /\ result = NoResult
  /\ own = [ s \in Subjects |-> d ]
  /\ ownResult = NoResult
  /\ streaming = [ s \in Subjects |-> s \in open ]
  /\ now = 0
  /\ nframes = 0
  /\ last = NoCall
  /\ before = d
  /\ closure = -1
  /\ streak = [ label |-> "", n |-> 0 ]
  /\ mono = [ sustained |-> FALSE, blink_after |-> FALSE ]
  /\ InitLoop
  /\ InitLeave

InitWith(loaded, open) == InitDetector(NewDetector(loaded), open)

\* the detector is constructed with or without model paths
Init == \E loaded \in BOOLEAN : InitWith(loaded, {"s1"})

InitLoaded == InitWith(TRUE, {"s1"})

InitStreams == InitWith(TRUE, {})

\* ------------------------------------------------------------ actions
\* the effect of one per-frame call for subject s: r on the shared
\* detector, o on the subject's own detector
Effect(s, api, f, decoded, dt, r, o) ==
  /\ det' = r.det
  /\ result' = r.res
  /\ own' = [ own EXCEPT ![s] = o.det ]
  /\ ownResult' = o.res
  /\ now' = now + dt
  /\ nframes' = nframes + 1
  /\ last' = [ subject |-> s, api |-> api, frame |-> f, decoded |-> decoded, dt |-> dt, obs |-> r.obs ]
  /\ before' = det
  /\ closure' = IF ~r.obs.blink_called THEN closure
                ELSE IF ~r.obs.closed THEN -1
                ELSE IF closure = -1 THEN now + dt ELSE closure
  /\ streak' = IF r.obs.outcome # "TRACKED" THEN [ label |-> "", n |-> 0 ]
               ELSE IF streak.label = f.label THEN [ streak EXCEPT !.n = @ + 1 ]
               ELSE [ label |-> f.label, n |-> 1 ]
  /\ mono' = IF ~r.obs.blink_called THEN mono
             ELSE IF ~r.obs.closed THEN [ sustained |-> FALSE, blink_after |-> FALSE ]
             ELSE [ sustained   |-> mono.sustained \/ ~r.obs.is_blink,
                    blink_after |-> mono.blink_after \/ (mono.sustained /\ r.obs.is_blink) ]
  /\ UNCHANGED << streaming, serverVars >>

\* detect_emotion_upload: process_frame on a decoded frame
ProcessFrame(s, f, dt, bound) ==
  /\ nframes < bound
  /\ streaming[s]
  /\ Effect(s, "frame", f, TRUE, dt,
            process_frame(det, f, now + dt), process_frame(own[s], f, now + dt))

\* student_websocket, message video_frame: process_base64_frame on the payload
ProcessBase64Frame(s, payload, dt, bound) ==
  /\ nframes < bound
  /\ streaming[s]
  /\ Effect(s, "base64", Decode(Body(payload)), Decodes(payload), dt,
            process_base64_frame(det, payload, now + dt),
            process_base64_frame(own[s], payload, now + dt))

\* load_model on a detector built without model paths.  joblib.load of the
\* label encoder may raise after the model was assigned.
LoadModel ==
  /\ ~det.model
  /\ \E enc_ok \in BOOLEAN :
       /\ det' = [ det EXCEPT !.model = TRUE, !.label_encoder = enc_ok ]
       /\ own' = [ s \in Subjects |-> [ own[s] EXCEPT !.model = TRUE, !.label_encoder = enc_ok ] ]
  /\ UNCHANGED << result, ownResult, streaming, now, nframes, last, before, closure, streak, mono, serverVars >>

\* a student's WebSocket connects: a stream starts
StreamStart(s) ==
  /\ ~streaming[s]
  /\ streaming' = [ streaming EXCEPT ![s] = TRUE ]
  /\ own' = [ own EXCEPT ![s] = NewDetector(TRUE) ]
  /\ UNCHANGED << det, result, ownResult, now, nframes, last, before, closure, streak, mono, serverVars >>

\* a student's WebSocket disconnects: the stream ends
StreamEnd(s) ==
  /\ streaming[s]
  /\ streaming' = [ streaming EXCEPT ![s] = FALSE ]
  /\ UNCHANGED << det, result, own, ownResult, now, nframes, last, before, closure, streak, mono, serverVars >>

\* ------------------------------------------------------------ general specification
Dts == {100, 300}

FrameCall ==
  \E f \in Frames, dt \in Dts : ProcessFrame("s1", f, dt, MaxFrames)

Base64Call ==
  \E p \in { Encoded(f) : f \in Frames } \cup { EncodedBare(NominalFrame) } \cup BadPayloads,
     dt \in Dts :
       ProcessBase64Frame("s1", p, dt, MaxFrames)

Next == FrameCall \/ Base64Call \/ LoadModel

Spec == Init /\ [][Next]_vars

\* ------------------------------------------------------------ threshold specification
\* frames that differ in the eye distance in pixels (face distance 70 / px),
\* in the lighting and in the glasses heuristic
ThresholdImgs ==
  { NominalImg, DarkImg, [ valid |-> TRUE, mean |-> 10, std |-> 0 ],
    [ valid |-> TRUE, mean |-> 250, std |-> 30 ] }

ThresholdFrames ==
  { [ NominalFrame EXCEPT !.lm.eye_px = px, !.lm.zvar_low = g, !.img = im ] :
      px \in {0, 28, 50, 70, 100, 175, 640}, g \in BOOLEAN, im \in ThresholdImgs }

ThresholdCall ==
  \E f \in ThresholdFrames : ProcessFrame("s1", f, 100, MaxThresholdFrames)

NextThresholds == ThresholdCall

SpecThresholds == InitLoaded /\ [][NextThresholds]_vars

\* ------------------------------------------------------------ focus score specification
\* every label with the gaze on the screen and with the gaze away
FocusFrames ==
  { [ NominalFrame EXCEPT !.label = l, !.lm.l_h = h, !.lm.r_h = h ] :
      l \in Labels, h \in {0, 600} }

FocusCall ==
  \E f \in FocusFrames : ProcessFrame("s1", f, 100, MaxFocusFrames)

NextFocus == FocusCall

SpecFocus == InitLoaded /\ [][NextFocus]_vars

\* ------------------------------------------------------------ smoothing specification
SmoothFrames ==
  { [ NominalFrame EXCEPT !.label = l ] : l \in {"happy", "sad", "angry"} }
  \cup { [ NominalFrame EXCEPT !.face = FALSE ] }

SmoothCall ==
  \E f \in SmoothFrames : ProcessBase64Frame("s1", Encoded(f), 100, MaxSmoothFrames)

NextSmooth == SmoothCall

SpecSmooth == InitLoaded /\ [][NextSmooth]_vars

\* ------------------------------------------------------------ blink specification
\* eyes open (EAR 0.3), shut (0.1), and half shut (0.19: below the EAR
\* threshold 0.2 without glasses, above the threshold 0.18 with glasses)
BlinkFrames ==
  { [ NominalFrame EXCEPT !.lm.l_ear = 300, !.lm.r_ear = 300 ],
    [ NominalFrame EXCEPT !.lm.l_ear = 100, !.lm.r_ear = 100 ],
    [ NominalFrame EXCEPT !.lm.l_ear = 180, !.lm.r_ear = 200 ],
    [ NominalFrame EXCEPT !.lm.l_ear = 180, !.lm.r_ear = 200, !.lm.zvar_low = TRUE ],
    [ NominalFrame EXCEPT !.face = FALSE ] }

BlinkCall ==
  \E f \in BlinkFrames, dt \in {100, 250} :
     ProcessBase64Frame("s1", Encoded(f), dt, MaxBlinkFrames)

NextBlink == BlinkCall

SpecBlink == InitLoaded /\ [][NextBlink]_vars

\* ------------------------------------------------------------ two students
StreamFrames ==
  { [ NominalFrame EXCEPT !.label = l ] : l \in {"happy", "sad"} }

StreamCall ==
  \E s \in Subjects, f \in StreamFrames :
     ProcessBase64Frame(s, Encoded(f), 100, MaxStreamFrames)

Connect == \E s \in Subjects : StreamStart(s)

Disconnect == \E s \in Subjects : StreamEnd(s)

NextStreams == StreamCall \/ Connect \/ Disconnect

SpecStreams == InitStreams /\ [][NextStreams]_vars

\* ------------------------------------------------------------ engagement specification
\* every label of the engagement table, one label outside it and one
\* spelling that differs in case only
EngagementLabels ==
  {"happy", "happiness", "surprised", "surprise", "neutral", "neutrality",
   "sad", "sadness", "disgust", "disgusted", "angry", "anger", "fear", "fearful",
   "contempt", "Happy"}

EngagementFrames ==
  { [ NominalFrame EXCEPT !.label = l ] : l \in EngagementLabels }
  \cup { [ NominalFrame EXCEPT !.face = FALSE ], [ NominalFrame EXCEPT !.fail = "classify" ] }

EngagementCall ==
  \E f \in EngagementFrames : ProcessFrame("s1", f, 100, MaxEngagementFrames)

NextEngagement == EngagementCall \/ LoadModel

SpecEngagement == Init /\ [][NextEngagement]_vars

\* ------------------------------------------------------------ gaze specification
\* open-eyed frames over the vertical ratios (l_v, r_v) and horizontal
\* ratios (l_h, r_h) of the two eyes, a turned head, a near and a far face,
\* and a landmark list without the iris landmarks
OpenGazeFrames ==
  { [ NominalFrame EXCEPT !.lm.l_v = v[1], !.lm.r_v = v[2], !.lm.l_h = h[1], !.lm.r_h = h[2] ] :
      v \in { <<0, 0>>, <<500, 500>>, <<-500, -500>>, <<300, 100>> },
      h \in { <<0, 0>>, <<600, 600>>, <<-600, 0>> } }
  \cup { [ NominalFrame EXCEPT !.lm.head_h = 900 ],
         [ NominalFrame EXCEPT !.lm.l_v = 500, !.lm.r_v = 500, !.lm.eye_px = 175 ],
         [ NominalFrame EXCEPT !.lm.l_v = 500, !.lm.r_v = 500, !.lm.eye_px = 28 ],
         [ NominalFrame EXCEPT !.lm.n = 468 ] }

\* frames with the eyes shut: gaze centred, gaze away, head turned, and
\* two emotions
ClosedGazeFrames ==
  { [ NominalFrame EXCEPT !.lm.l_ear = 100, !.lm.r_ear = 100 ],
    [ NominalFrame EXCEPT !.lm.l_ear = 100, !.lm.r_ear = 100, !.lm.head_h = 900 ],
    [ NominalFrame EXCEPT !.lm.l_ear = 100, !.lm.r_ear = 100,
                          !.lm.l_v = 500, !.lm.r_v = 500, !.lm.l_h = 600, !.lm.r_h = 600 ],
    [ NominalFrame EXCEPT !.lm.l_ear = 100, !.lm.r_ear = 100, !.label = "disgust",
                          !.lm.l_v = -500, !.lm.r_v = -500, !.lm.head_v = 900 ],
    [ NominalFrame EXCEPT !.lm.l_ear = 100, !.lm.r_ear = 100, !.label = "happy",
                          !.lm.l_h = 600, !.lm.r_h = 600 ] }

GazeCall ==
  \/ \E f \in OpenGazeFrames : ProcessFrame("s1", f, 100, MaxGazeFrames)
  \/ \E f \in ClosedGazeFrames, dt \in Dts : ProcessFrame("s1", f, dt, MaxGazeFrames)

NextGaze == GazeCall

SpecGaze == InitLoaded /\ [][NextGaze]_vars


\* ------------------------------------------------------------ long stream specification
\* the k-th frame of a long stream: the eyes shut on every other frame (a
\* blink_history entry per frame), the face coming closer and the light
\* getting better frame by frame (every history entry differs from its
\* neighbours), the label l
RingFrame(k, l) ==
  [ NominalFrame EXCEPT !.label = l,
                        !.lm.l_ear = IF k % 2 = 1 THEN 100 ELSE 300,
                        !.lm.r_ear = IF k % 2 = 1 THEN 100 ELSE 300,
                        !.lm.eye_px = 40 + k,
                        !.img = [ valid |-> TRUE, mean |-> 20 + k, std |-> 10 ] ]

RingCall ==
  \E l \in {"happy", "sad"} :
     ProcessBase64Frame("s1", Encoded(RingFrame(nframes, l)), 100, MaxRingFrames)

NextRing == RingCall

SpecRing == InitLoaded /\ [][NextRing]_vars


\* ------------------------------------------------------------ event loop specification
\* the detector instance a handler uses: each router module keeps its own
\* singleton
Instance(t) == IF t \in {"ws1", "ws2"} THEN "websocket_router" ELSE "emotion_router"

\* the variables of the detector and of the per-frame calls
frameVars == << det, result, own, ownResult, streaming, now, nframes, last, before, closure, streak,
               mono >>

\* whether the call of process_base64_frame / process_frame hands the event
\* loop to other coroutines while it executes: the handlers are async def
\* and call the detector with a plain call, without await
CallYields_executor(t) == TRUE

CallYields(t) == FALSE

\* the await of receive_json / of the request body completes: the coroutine
\* is ready to continue
Receive(t) ==
  /\ task[t] = "waiting"
  /\ task' = [ task EXCEPT ![t] = "ready" ]
  /\ UNCHANGED << running, frameVars, leaveVars >>

\* the event loop, executing no coroutine, continues a ready one
Resume(t) ==
  /\ running = ""
  /\ task[t] = "ready"
  /\ task' = [ task EXCEPT ![t] = "resumed" ]
  /\ running' = t
  /\ UNCHANGED << frameVars, leaveVars >>

\* the handler enters detector.process_base64_frame / process_frame
EnterCall(t) ==
  /\ running = t
  /\ task[t] = "resumed"
  /\ task' = [ task EXCEPT ![t] = "in_call" ]
  /\ running' = IF CallYields(t) THEN "" ELSE t
  /\ UNCHANGED << frameVars, leaveVars >>

\* the detector call returns to the handler
ReturnCall(t) ==
  /\ task[t] = "in_call"
  /\ running = IF CallYields(t) THEN "" ELSE t
  /\ task' = [ task EXCEPT ![t] = "returned" ]
  /\ running' = t
  /\ UNCHANGED << frameVars, leaveVars >>

\* the handler awaits the database update and the send of the result: the
\* event loop is free again
Await(t) ==
  /\ running = t
  /\ task[t] = "returned"
  /\ task' = [ task EXCEPT ![t] = "sending" ]
  /\ running' = ""
  /\ UNCHANGED << frameVars, leaveVars >>

\* the send completes; the handler awaits the next message or request
SendDone(t) ==
  /\ task[t] = "sending"
  /\ task' = [ task EXCEPT ![t] = "waiting" ]
  /\ UNCHANGED << running, frameVars, leaveVars >>

NextLoop ==
  \E t \in Tasks :
    Receive(t) \/ Resume(t) \/ EnterCall(t) \/ ReturnCall(t) \/ Await(t) \/ SendDone(t)

SpecLoop == InitLoaded /\ [][NextLoop]_vars


\* ------------------------------------------------------------ noise specification
\* detectors constructed with a smoothing window of 2, 3 or the default 5
Windows == {2, 3, smoothing_window}

InitWindow == \E w \in Windows : InitDetector(NewDetectorWith(TRUE, w), {"s1"})

\* focused frames of three labels with three different engagements
NoiseFrames == { [ NominalFrame EXCEPT !.label = l ] : l \in {"happy", "sad", "angry"} }

NoiseCall ==
  \E f \in NoiseFrames : ProcessFrame("s1", f, 100, MaxNoiseFrames)

NextNoise == NoiseCall

SpecNoise == InitWindow /\ [][NextNoise]_vars


\* ------------------------------------------------------------ departure specification
\* leave_session, line 337: the session document is read
LeaveFind(s) ==
  /\ leaveApi[s] = "idle"
  /\ leaveApi' = [ leaveApi EXCEPT ![s] = "found" ]
  /\ UNCHANGED << roster, wsConn, inbox, frameVars, loopVars >>

\* leave_session, lines 349-352: the student is pulled from the session
LeavePull(s) ==
  /\ leaveApi[s] = "found"
  /\ roster' = roster \ {s}
  /\ leaveApi' = [ leaveApi EXCEPT ![s] = "pulled" ]
  /\ UNCHANGED << wsConn, inbox, frameVars, loopVars >>

\* leave_session, lines 354-368: student_leave is sent to the teacher,
\* whatever modified_count the pull returned
LeaveNotify(s) ==
  /\ leaveApi[s] = "pulled"
  /\ inbox' = [ inbox EXCEPT ![s] = @ + 1 ]
  /\ leaveApi' = [ leaveApi EXCEPT ![s] = "done" ]
  /\ UNCHANGED << roster, wsConn, frameVars, loopVars >>

\* student_websocket, lines 396-398: the disconnect is raised by
\* receive_json inside the message loop, which breaks; the handler ends
WsBreak(s) ==
  /\ wsConn[s] = "open"
  /\ wsConn' = [ wsConn EXCEPT ![s] = "closed" ]
  /\ UNCHANGED << roster, leaveApi, inbox, frameVars, loopVars >>

\* student_websocket, lines 582-586: the disconnect reaches the handler's
\* except branch
WsDisconnect(s) ==
  /\ wsConn[s] = "open"
  /\ wsConn' = [ wsConn EXCEPT ![s] = "closing" ]
  /\ UNCHANGED << roster, leaveApi, inbox, frameVars, loopVars >>

\* student_websocket, lines 589-600: the student is pulled from the
\* session; should_notify iff the pull modified the document
WsPull(s) ==
  /\ wsConn[s] = "closing"
  /\ roster' = roster \ {s}
  /\ wsConn' = [ wsConn EXCEPT ![s] = IF s \in roster THEN "notify" ELSE "silent" ]
  /\ UNCHANGED << leaveApi, inbox, frameVars, loopVars >>

\* student_websocket, lines 604-621: student_leave is sent if should_notify;
\* the connection is dropped from the manager
WsNotify(s) ==
  /\ wsConn[s] \in {"notify", "silent"}
  /\ inbox' = [ inbox EXCEPT ![s] = IF wsConn[s] = "notify" THEN @ + 1 ELSE @ ]
  /\ wsConn' = [ wsConn EXCEPT ![s] = "closed" ]
  /\ UNCHANGED << roster, leaveApi, frameVars, loopVars >>

NextLeave ==
  \E s \in Subjects :
    \/ LeaveFind(s) \/ LeavePull(s) \/ LeaveNotify(s)
    \/ WsBreak(s) \/ WsDisconnect(s) \/ WsPull(s) \/ WsNotify(s)

SpecLeave == InitLoaded /\ [][NextLeave]_vars


\* ------------------------------------------------------------ properties
Returned == ~IsRaised(result) /\ "focus_level" \in DOMAIN result

Tracked == Returned /\ result.face_detected

Loaded(d) == d.model /\ d.label_encoder

\* C1: the focus_level of every returned result is an integer in [0, 100],
\* whatever the outcome (NO_MODEL, NO_FACE, TRACKED, error).
C1_FocusLevelInRange ==
  Returned => result.focus_level \in 0..100

\* a tracked frame whose score was floored at 0: disgust with the gaze away
C1_Witness ==
  /\ Tracked
  /\ ~result.is_focused_gaze
  /\ result.emotion = "disgust"
  /\ result.focus_level = 0

\* C2 (as claimed): the vector given to the classifier has exactly 36
\* entries, in the order of FEATURE_ORDER.
C2_Original ==
  last.obs.X # <<>> =>
    /\ Len(last.obs.X) = 36
    /\ \A i \in DOMAIN last.obs.X :
         last.obs.X[i] = compute_features(last.frame.lm)[FEATURE_ORDER[i]]

\* C2 (amended): the vector given to the classifier has exactly 37 entries,
\* entry i being the value compute_features gives the i-th name of
\* FEATURE_ORDER (no entry is the default of a missing name).
C2_FeatureVector37 ==
  last.obs.X # <<>> =>
    /\ Len(last.obs.X) = 37
    /\ Len(FEATURE_ORDER) = 37
    /\ \A i \in DOMAIN last.obs.X :
         /\ FEATURE_ORDER[i] \in DOMAIN compute_features(last.frame.lm)
         /\ last.obs.X[i] = compute_features(last.frame.lm)[FEATURE_ORDER[i]]
         /\ last.obs.X[i][1] = FEATURE_ORDER[i]

\* a tracked frame: the classifier was given a vector
C2_Witness ==
  /\ Tracked
  /\ last.obs.outcome = "TRACKED"
  /\ last.obs.X # <<>>
  /\ last.obs.X[18] = <<"pose_yaw", 5>>

\* C3: in every reachable detector state the three adaptive thresholds are
\* inside their clamp ranges [0.18, 0.35], [0.22, 0.40], [0.15, 0.28].
C3_ThresholdsInRange ==
  /\ det.adaptive_focus_threshold \in 180000..350000
  /\ det.adaptive_vertical_threshold \in 220000..400000
  /\ det.adaptive_ear_threshold \in 150000..280000

\* adapt_thresholds ran for the closest face, with glasses, in the worst light
C3_Witness ==
  /\ Tracked
  /\ det.face_distance = 400
  /\ det.wearing_glasses
  /\ det.lighting_quality = 300
  /\ det.adaptive_focus_threshold = 246400

\* C4: on a frame of an eye closure (average EAR below the adaptive EAR
\* threshold) is_blinking says blink iff the closure has lasted less than
\* 0.3 s; closure is the time of the first frame of the running closure.
C4_BlinkIffShort ==
  (last.obs.blink_called /\ last.obs.closed) =>
    /\ closure >= 0
    /\ last.obs.is_blink <=> (now - closure < 300)

\* a frame of a closure that began on an earlier frame and has lasted 0.3 s or more
C4_Witness ==
  /\ last.obs.blink_called
  /\ last.obs.closed
  /\ closure >= 0
  /\ now - closure >= 300
  /\ ~last.obs.is_blink
  /\ Tracked
  /\ ~result.is_focused_gaze

\* the step of the claim's list that failed on the last frame, "none" if none
FailedStep ==
  IF ~last.frame.img.valid THEN "lighting"
  ELSE IF last.frame.fail = "enhance"
    THEN (IF det.lighting_quality < 700 THEN "enhance" ELSE "none")
  ELSE IF last.frame.fail # "none" THEN last.frame.fail
  ELSE IF last.frame.face /\ last.frame.lm.n <= 477 THEN "gaze"
  ELSE "none"

\* C5 (as claimed): process_frame never raises; when a step fails with a
\* loaded model it returns face_detected=false, focus_level=0 and the error text.
C5_NeverRaises ==
  (last.api = "frame" /\ Loaded(before)) =>
    /\ ~IsRaised(result)
    /\ FailedStep # "none" =>
         /\ ~result.face_detected
         /\ result.focus_level = 0
         /\ "error" \in DOMAIN result

\* C6: when no face is found (model loaded) the result is face_detected=false,
\* engagement=distracted, focus_level=0; recent_predictions and blink_history
\* are as before the call.
C6_NoFace ==
  (/\ last.api # ""
   /\ Loaded(before)
   /\ last.decoded
   /\ last.frame.img.valid
   /\ last.frame.fail \in {"none", "features", "classify", "engagement"}
   /\ ~last.frame.face) =>
     /\ Returned
     /\ ~result.face_detected
     /\ result.engagement = "distracted"
     /\ result.focus_level = 0
     /\ det.recent_predictions = before.recent_predictions
     /\ det.blink_history = before.blink_history

\* a frame without a face arrives when both buffers hold entries
C6_Witness ==
  /\ last.api # ""
  /\ Loaded(before)
  /\ last.decoded
  /\ ~last.frame.face
  /\ last.obs.outcome = "NO_FACE"
  /\ before.recent_predictions # <<>>
  /\ before.blink_history # <<>>

\* C7 (as claimed): the result for a subject's frame depends on that
\* stream's own frames only, i.e. it is the result a detector owned by the
\* stream returns.
C7_SubjectsIndependent ==
  last.api # "" => result = ownResult

\* C8: after 5 consecutive tracked frames with raw label X the smoothed
\* emotion is X (smoothing window 5), whatever the buffer held before.
C8_FiveIdentical ==
  (Tracked /\ streak.n >= 5) => result.emotion = streak.label

\* the fifth frame of such a run, with another label in the buffer before it
C8_Witness ==
  /\ Tracked
  /\ streak.n = 5
  /\ result.emotion = streak.label
  /\ Len(before.recent_predictions) = 5
  /\ before.recent_predictions[1] # streak.label

Occurrences(buf, x) == Cardinality({ i \in DOMAIN buf : buf[i] = x })

\* e is a most frequent label of buf and, of the most frequent ones, the
\* one met first from the oldest entry on
FirstMode(buf, e) ==
  \E i \in DOMAIN buf :
    /\ buf[i] = e
    /\ \A j \in DOMAIN buf : Occurrences(buf, buf[j]) <= Occurrences(buf, e)
    /\ \A j \in 1..(i - 1) : Occurrences(buf, buf[j]) < Occurrences(buf, e)

\* C9: the smoothed emotion of a tracked frame is the most frequent label of
\* recent_predictions after the push, the first met from the oldest entry on
\* when counts tie; with one buffered label it is the raw label.
C9_ModeFirstSeen ==
  Tracked =>
    /\ det.recent_predictions # <<>>
    /\ det.recent_predictions[Len(det.recent_predictions)] = result.raw_emotion
    /\ FirstMode(det.recent_predictions, result.emotion)
    /\ Len(det.recent_predictions) = 1 => result.emotion = result.raw_emotion

\* a tie that the older label wins against the frame's raw label
C9_Witness ==
  /\ Tracked
  /\ result.emotion # result.raw_emotion
  /\ Occurrences(det.recent_predictions, result.emotion)
       = Occurrences(det.recent_predictions, result.raw_emotion)

\* the base scores of the claim
ClaimBase(e) ==
  CASE e \in {"happy", "Happy"}       -> 85
    [] e = "surprise"                 -> 80
    [] e \in {"neutral", "NEUTRAL"}   -> 70
    [] e = "sad"                      -> 55
    [] e = "fear"                     -> 40
    [] e = "angry"                    -> 35
    [] e = "disgust"                  -> 30
    [] OTHER                          -> 60

\* the claim's score for penalty p
ClaimScore(e, focused, p) ==
  IF focused THEN ClaimBase(e) ELSE Clip(ClaimBase(e) - p, 0, 100)

\* C10 (as claimed): focus_level is the base score of the smoothed emotion
\* when the gaze is focused, and the base score minus one penalty (30 or 40)
\* clamped to [0, 100] when it is not.
C10_SinglePenalty ==
  Tracked =>
    \/ result.focus_level = ClaimScore(result.emotion, result.is_focused_gaze, 30)
    \/ result.focus_level = ClaimScore(result.emotion, result.is_focused_gaze, 40)

\* the engagement table as the claim states it; labels are compared
\* without regard to case
ClaimEngagement(e) ==
  IF e \in {"happy", "Happy", "happiness", "surprised", "surprise", "neutral", "NEUTRAL", "neutrality"}
    THEN "active"
  ELSE IF e \in {"sad", "sadness", "disgust", "disgusted"} THEN "passive"
  ELSE IF e \in {"angry", "anger", "fear", "fearful"} THEN "distracted"
  ELSE "passive"

TrackingState(d) == [ d EXCEPT !.model = TRUE, !.label_encoder = TRUE ]

\* C12: whenever process_base64_frame was called on a payload that decodes
\* to a frame, the result it returned and the detector state it left are
\* the result and the state of process_frame called on the decoded frame in
\* the detector state before the call.
C12_Base64AsDecoded ==
  (last.api = "base64" /\ last.decoded) =>
    /\ result = process_frame(before, last.frame, now).res
    /\ TrackingState(det) = TrackingState(process_frame(before, last.frame, now).det)

\* the frame shows open eyes of EAR 0.3 each, both irises at (0, 0) and a
\* head without deviation
CenteredOpenEyes(lm) ==
  /\ lm.n = 478
  /\ lm.l_ear = 300 /\ lm.r_ear = 300
  /\ lm.l_h = 0 /\ lm.l_v = 0 /\ lm.r_h = 0 /\ lm.r_v = 0
  /\ lm.head_h = 0 /\ lm.head_v = 0

\* C13: in every detector state, whatever the smoothed face distance, the
\* lighting quality and the glasses value, a tracked frame with symmetric
\* open eyes (EAR 0.3), iris ratios (0, 0) and no head deviation has
\* is_focused_gaze true and gaze_direction CENTER.
C13_CenteredIsFocused ==
  (Tracked /\ CenteredOpenEyes(last.frame.lm)) =>
    /\ result.is_focused_gaze
    /\ result.gaze_direction = "CENTER"

\* such a frame on a detector that has adapted to glasses, a far face and
\* poor light
C13_Witness ==
  /\ Tracked /\ CenteredOpenEyes(last.frame.lm)
  /\ result.is_focused_gaze
  /\ before.wearing_glasses /\ det.wearing_glasses
  /\ before.face_distance > 1000 /\ det.face_distance > 1000
  /\ before.lighting_quality < 1000 /\ det.lighting_quality < 700

\* the frame's vertical gaze ratio is 0.5 in magnitude for both eyes
VerticalHalf(lm) == lm.n = 478 /\ Abs(lm.l_v) = 500 /\ Abs(lm.r_v) = 500

\* C14 as stated: every tracked frame whose vertical gaze ratio is 0.5,
\* with the adaptive vertical threshold in [0.22, 0.40], has
\* is_focused_gaze false and gaze_direction UP or DOWN.
C14_Original ==
  (Tracked /\ VerticalHalf(last.frame.lm)
     /\ det.adaptive_vertical_threshold \in 220000..400000) =>
    /\ ~result.is_focused_gaze
    /\ result.gaze_direction \in {"UP", "DOWN"}

\* C14: every tracked frame whose vertical gaze ratio is 0.5, with the
\* adaptive vertical threshold in [0.22, 0.40], has gaze_direction UP or
\* DOWN, and has is_focused_gaze false unless the frame is classified as a
\* blink.
C14_VerticalGazeUnfocused ==
  (Tracked /\ VerticalHalf(last.frame.lm)
     /\ det.adaptive_vertical_threshold \in 220000..400000) =>
    /\ ~last.obs.is_blink => ~result.is_focused_gaze
    /\ result.gaze_direction \in {"UP", "DOWN"}

\* an open-eyed frame looking up on a detector whose vertical threshold has
\* adapted away from its base value
C14_Witness ==
  /\ Tracked /\ VerticalHalf(last.frame.lm)
  /\ ~last.obs.is_blink /\ ~last.obs.closed
  /\ det.adaptive_vertical_threshold > 250000
  /\ ~result.is_focused_gaze
  /\ result.gaze_direction = "UP"

\* C18: every tracked frame that is_blinking classifies as a blink has
\* is_focused_gaze true, whatever its gaze ratios and head deviation, and
\* its focus_level is the base score of the smoothed emotion without any
\* penalty.
C18_BlinkNeverPenalized ==
  (Tracked /\ last.obs.is_blink) =>
    /\ result.is_focused_gaze
    /\ result.focus_level = ClaimBase(result.emotion)

\* a blink with the gaze down and away and the head turned
C18_Witness ==
  /\ Tracked /\ last.obs.is_blink
  /\ last.frame.lm.l_v = -500 /\ last.frame.lm.head_v = 900
  /\ result.is_focused_gaze
  /\ result.emotion = "disgust" /\ result.focus_level = 30

\* the head deviations are below the head-forward threshold at the
\* smoothed face distance
ClaimHeadForward(lm) == HeadForward(lm, det.face_distance)

\* C19 as stated: on every tracked frame is_focused_gaze is the first
\* matching rule of: (1) average EAR below the EAR threshold and no blink:
\* unfocused; (2) blink: focused; (3) magnitude of the average of the two
\* vertical ratios above the vertical threshold: unfocused; (4) focused iff
\* both horizontal ratios are within the focus threshold and the head is
\* forward.
C19_Original ==
  (Tracked /\ last.frame.lm.n = 478) =>
    result.is_focused_gaze =
      ( IF (last.frame.lm.l_ear + last.frame.lm.r_ear) * 500 < det.adaptive_ear_threshold
             /\ ~last.obs.is_blink THEN FALSE
        ELSE IF last.obs.is_blink THEN TRUE
        ELSE IF Abs((last.frame.lm.l_v + last.frame.lm.r_v) * 500) > det.adaptive_vertical_threshold
          THEN FALSE
        ELSE /\ Abs(last.frame.lm.l_h) * 1000 < det.adaptive_focus_threshold
             /\ Abs(last.frame.lm.r_h) * 1000 < det.adaptive_focus_threshold
             /\ ClaimHeadForward(last.frame.lm) )

\* C19: on every tracked frame is_focused_gaze is the first matching rule
\* of: (1) average EAR below the EAR threshold and no blink: unfocused;
\* (2) blink: focused; (3) the magnitude of either eye's vertical ratio
\* above the vertical threshold: unfocused; (4) focused iff both
\* horizontal ratios are within the focus threshold and the head is
\* forward.
C19_FourRules ==
  (Tracked /\ last.frame.lm.n = 478) =>
    result.is_focused_gaze =
      ( IF (last.frame.lm.l_ear + last.frame.lm.r_ear) * 500 < det.adaptive_ear_threshold
             /\ ~last.obs.is_blink THEN FALSE
        ELSE IF last.obs.is_blink THEN TRUE
        ELSE IF \/ Abs(last.frame.lm.l_v) * 1000 > det.adaptive_vertical_threshold
                \/ Abs(last.frame.lm.r_v) * 1000 > det.adaptive_vertical_threshold
          THEN FALSE
        ELSE /\ Abs(last.frame.lm.l_h) * 1000 < det.adaptive_focus_threshold
             /\ Abs(last.frame.lm.r_h) * 1000 < det.adaptive_focus_threshold
             /\ ClaimHeadForward(last.frame.lm) )

\* open eyes, horizontal gaze centred, head forward, one eye's vertical
\* ratio above the threshold and the average of the two below it
C19_Witness ==
  /\ Tracked /\ last.frame.lm.n = 478
  /\ ~last.obs.closed /\ ~last.obs.is_blink
  /\ Abs(last.frame.lm.l_v) * 1000 > det.adaptive_vertical_threshold
  /\ Abs((last.frame.lm.l_v + last.frame.lm.r_v) * 500) < det.adaptive_vertical_threshold
  /\ last.frame.lm.l_h = 0 /\ last.frame.lm.r_h = 0
  /\ ~result.is_focused_gaze

\* C20: every result with face_detected true has a gaze_direction out of
\* CENTER, LEFT, RIGHT, UP, DOWN, UP-LEFT, UP-RIGHT, DOWN-LEFT, DOWN-RIGHT,
\* also when the gaze analysis failed.
C20_GazeDirectionInEnum ==
  (Returned /\ result.face_detected) =>
    result.gaze_direction \in {"CENTER", "LEFT", "RIGHT", "UP", "DOWN",
                               "UP-LEFT", "UP-RIGHT", "DOWN-LEFT", "DOWN-RIGHT"}

\* C16: a per-frame call on a detector whose classifier or label encoder
\* is not loaded returns the neutral defaults with an error field, runs no
\* classification and leaves recent_predictions as it was.
C16_NoModelDefaults ==
  (last.api \in {"frame", "base64"} /\ last.decoded /\ ~Loaded(before)) =>
    /\ Returned
    /\ result.emotion = "neutral" /\ result.confidence = 0
    /\ result.engagement = "passive" /\ result.focus_level = 60
    /\ ~result.face_detected
    /\ "error" \in DOMAIN result
    /\ last.obs.X = <<>>
    /\ det.recent_predictions = before.recent_predictions

\* a frame with a face handed to a detector whose classifier is loaded
\* and whose label encoder is not
C16_Witness ==
  /\ last.api = "frame" /\ last.frame.face /\ last.frame.fail = "none"
  /\ before.model /\ ~before.label_encoder
  /\ Returned /\ result.error = "Model not loaded"
  /\ det = before

\* C17: process_base64_frame never raises; for a payload that is no base64
\* text or no image it returns face_detected false, focus_level 0 and an
\* error text, and the detector state is what it was before the call.
C17_Base64NeverRaises ==
  last.api = "base64" =>
    /\ Returned
    /\ ~last.decoded =>
         /\ ~result.face_detected
         /\ result.focus_level = 0
         /\ "error" \in DOMAIN result
         /\ TrackingState(det) = TrackingState(before)

\* a payload that does not decode, handed to a detector that has tracked
\* frames before
C17_Witness ==
  /\ last.api = "base64" /\ ~last.decoded
  /\ before.recent_predictions # <<>> /\ before.distance_history # <<>>
  /\ before.lighting_history # <<>>
  /\ Returned /\ result.error = "Failed to decode image"

\* buffer a is buffer b after one push at capacity cap: b with one entry
\* added at the end, and without its oldest entry when b was full
Pushed(b, a, cap) ==
  IF Len(b) = cap
    THEN Len(a) = cap /\ \A i \in 1..(cap - 1) : a[i] = b[i + 1]
    ELSE Len(a) = Len(b) + 1 /\ \A i \in 1..Len(b) : a[i] = b[i]

\* C15: the ring buffers never exceed their capacity (distance_history 30,
\* lighting_history 30, blink_history 10, recent_predictions the smoothing
\* window), and the push of a tracked frame onto a full buffer drops
\* exactly the oldest entry and keeps the others in order.
C15_RingBuffersBounded ==
  /\ Len(det.distance_history) <= 30
  /\ Len(det.lighting_history) <= 30
  /\ Len(det.blink_history) <= 10
  /\ Len(det.recent_predictions) <= smoothing_window
  /\ Tracked =>
       /\ Pushed(before.distance_history, det.distance_history, 30)
       /\ Pushed(before.lighting_history, det.lighting_history, 30)
       /\ Pushed(before.recent_predictions, det.recent_predictions, smoothing_window)
       /\ \/ det.blink_history = before.blink_history
          \/ Pushed(before.blink_history, det.blink_history, 10)

\* a tracked frame that pushes onto four full buffers
C15_Witness ==
  /\ Tracked
  /\ Len(before.distance_history) = 30 /\ Len(before.lighting_history) = 30
  /\ Len(before.blink_history) = 10 /\ Len(before.recent_predictions) = smoothing_window
  /\ det.distance_history # before.distance_history
  /\ det.lighting_history # before.lighting_history
  /\ det.blink_history # before.blink_history
  /\ Len(det.distance_history) = 30 /\ Len(det.blink_history) = 10

\* C21: the gaze_direction of a tracked frame is the 8-way label of the
\* averaged gaze ratios with vertical priority: a diagonal when the average
\* vertical ratio is beyond the vertical threshold and the average
\* horizontal ratio beyond the focus threshold, UP or DOWN when only the
\* vertical is, LEFT or RIGHT when only the horizontal is, else CENTER.
C21_EightWayLabel ==
  (Tracked /\ last.frame.lm.n = 478) =>
    result.gaze_direction = detect_gaze_direction(det, last.frame.lm)

\* C22: no two executions of process_frame / process_base64_frame on the
\* same detector instance overlap, whatever the interleaving of the
\* WebSocket connections and HTTP requests.
C22_CallsNeverOverlap ==
  \A t1, t2 \in Tasks :
    (t1 # t2 /\ Instance(t1) = Instance(t2)) =>
      ~(task[t1] = "in_call" /\ task[t2] = "in_call")

\* one connection's frame is inside the detector while the frame of the
\* other connection of the same instance has arrived and waits
C22_Witness ==
  /\ task["ws1"] = "in_call" /\ task["ws2"] = "ready"
  /\ task["detect"] = "ready" /\ task["upload"] = "sending"

\* C23: on every tracked frame the face_distance and the lighting_quality
\* that adapt_thresholds read are the means of distance_history and of
\* lighting_history, the frame's own measurement included.
C23_EstimatesSmoothed ==
  (Tracked /\ last.frame.lm.n = 478) =>
    /\ det.face_distance = Mean(det.distance_history)
    /\ det.lighting_quality = Mean(det.lighting_history)
    /\ det.adaptive_ear_threshold =
         adapt_thresholds([ det EXCEPT !.lighting_quality = Mean(det.lighting_history) ]).adaptive_ear_threshold

\* the last two calls were tracked frames that left the same smoothed face
\* distance and the same glasses value, the second in light poorer by at
\* least `drop` thousandths
DarkerFrame(drop) ==
  /\ Tracked /\ last.frame.lm.n = 478
  /\ before.distance_history # <<>>
  /\ det.face_distance = before.face_distance
  /\ det.wearing_glasses = before.wearing_glasses
  /\ det.lighting_quality + drop <= before.lighting_quality

\* C24 as stated: with face distance and glasses equal, a lower lighting
\* quality makes none of the focus, vertical and EAR thresholds smaller,
\* and a sufficiently lower one (here lower by 0.3 or more) makes each of
\* them larger unless it is at its upper clamp.
C24_Original ==
  /\ DarkerFrame(1) =>
       /\ det.adaptive_focus_threshold >= before.adaptive_focus_threshold
       /\ det.adaptive_vertical_threshold >= before.adaptive_vertical_threshold
       /\ det.adaptive_ear_threshold >= before.adaptive_ear_threshold
  /\ DarkerFrame(300) =>
       /\ det.adaptive_focus_threshold > before.adaptive_focus_threshold
            \/ before.adaptive_focus_threshold = 350000
       /\ det.adaptive_vertical_threshold > before.adaptive_vertical_threshold
            \/ before.adaptive_vertical_threshold = 400000
       /\ det.adaptive_ear_threshold > before.adaptive_ear_threshold
            \/ before.adaptive_ear_threshold = 280000

\* C24: with face distance and glasses equal, a lower lighting quality
\* makes the EAR threshold larger (unless it is at its upper clamp) and
\* leaves the focus and vertical thresholds as they were.
C24_LightingWidensEar ==
  DarkerFrame(1) =>
    /\ det.adaptive_focus_threshold = before.adaptive_focus_threshold
    /\ det.adaptive_vertical_threshold = before.adaptive_vertical_threshold
    /\ det.adaptive_ear_threshold > before.adaptive_ear_threshold
         \/ before.adaptive_ear_threshold = 280000

\* a frame in good light followed by a dark one, glasses on, the face far
C24_Witness ==
  /\ DarkerFrame(300)
  /\ det.wearing_glasses /\ det.face_distance > 1000
  /\ det.adaptive_ear_threshold > before.adaptive_ear_threshold
  /\ det.adaptive_focus_threshold = before.adaptive_focus_threshold

\* the last two calls were tracked frames and the smoothed face distance
\* did not shrink from the first to the second
FartherFrame ==
  /\ Tracked /\ last.frame.lm.n = 478
  /\ before.distance_history # <<>>
  /\ before.face_distance \in 400..2500 /\ det.face_distance \in 400..2500
  /\ det.face_distance >= before.face_distance

\* C25 as stated: over face distances in [0.4, 2.5] the head-forward
\* threshold never increases as the distance grows.
C25_Original ==
  FartherFrame => HeadThreshold(det.face_distance) <= HeadThreshold(before.face_distance)

\* C25: the head-forward threshold is larger at every face distance below
\* 1.0 than at every distance of 1.0 or more; below 1.0 it never increases
\* as the distance grows, from 1.0 on it never decreases as the distance
\* grows.
C25_HeadThresholdByDistance ==
  FartherFrame =>
    /\ (before.face_distance < 1000 /\ det.face_distance >= 1000) =>
         HeadThreshold(det.face_distance) < HeadThreshold(before.face_distance)
    /\ det.face_distance < 1000 =>
         HeadThreshold(det.face_distance) <= HeadThreshold(before.face_distance)
    /\ before.face_distance >= 1000 =>
         HeadThreshold(det.face_distance) >= HeadThreshold(before.face_distance)

\* two far frames, the second farther, with a larger allowance
C25_Witness ==
  /\ FartherFrame
  /\ before.face_distance = 1000 /\ det.face_distance > 1000
  /\ HeadThreshold(det.face_distance) > HeadThreshold(before.face_distance)
  /\ result.is_focused_gaze

\* the newest entry of blink history h
Newest(h) == h[Len(h)]

\* C26: blink_history alternates: no two adjacent entries have the same
\* state; a frame appends at most one entry, a closed entry only when the
\* history is empty or its newest entry is open, an open entry only when
\* its newest entry is closed; a call that does not reach is_blinking
\* appends nothing.
C26_BlinkHistoryAlternates ==
  /\ \A i \in 1..(Len(det.blink_history) - 1) :
       det.blink_history[i].state # det.blink_history[i + 1].state
  /\ \/ det.blink_history = before.blink_history
     \/ /\ last.obs.blink_called
        /\ Pushed(before.blink_history, det.blink_history, 10)
        /\ Newest(det.blink_history).state = (IF last.obs.closed THEN "closed" ELSE "open")
        /\ Newest(det.blink_history).state = "closed" =>
             before.blink_history = <<>> \/ Newest(before.blink_history).state = "open"
        /\ Newest(det.blink_history).state = "open" =>
             before.blink_history # <<>> /\ Newest(before.blink_history).state = "closed"

\* a second closed frame in a row, after a closure that had ended: the
\* history keeps its three entries
C26_Witness ==
  /\ last.obs.blink_called /\ last.obs.closed
  /\ Len(det.blink_history) = 3
  /\ det.blink_history = before.blink_history
  /\ Newest(det.blink_history).state = "closed"

\* buffer buf is full, at capacity cap, of the single label x
FullOf(buf, cap, x) == Len(buf) = cap /\ \A i \in 1..cap : buf[i] = x

\* C27: with a smoothing window of at least 2, a tracked frame whose raw
\* label differs from the single label X that filled recent_predictions
\* before the frame returns the smoothed emotion X with the frame's label
\* as raw_emotion, the engagement of X and, the gaze being focused, the
\* base focus score of X.
C27_SingleFrameNoiseDamped ==
  (Tracked /\ before.smoothing_window >= 2 /\ before.recent_predictions # <<>>
     /\ FullOf(before.recent_predictions, before.smoothing_window, before.recent_predictions[1])
     /\ last.frame.label # before.recent_predictions[1]) =>
    /\ result.emotion = before.recent_predictions[1]
    /\ result.raw_emotion = last.frame.label
    /\ result.engagement = ClaimEngagement(before.recent_predictions[1])
    /\ result.is_focused_gaze => result.focus_level = ClaimBase(before.recent_predictions[1])

\* a window of 2 full of "angry" and then a "happy" frame: a tie of two
\* labels
C27_Witness ==
  /\ Tracked /\ before.smoothing_window = 2
  /\ FullOf(before.recent_predictions, 2, "angry")
  /\ last.frame.label = "happy"
  /\ result.emotion = "angry" /\ result.raw_emotion = "happy"
  /\ result.engagement = "distracted" /\ result.focus_level = 35

\* C28: within one uninterrupted closure no frame is classified a blink
\* after a frame of that closure was classified sustained, and as long as
\* the closure runs the newest blink_history entry is the closed entry
\* with the time of the closure's first frame.
C28_ClosureMonotone ==
  /\ ~mono.blink_after
  /\ closure >= 0 =>
       /\ det.blink_history # <<>>
       /\ Newest(det.blink_history) = [ state |-> "closed", start_time |-> closure ]

\* the second sustained frame of a closure whose first two frames were
\* blinks
C28_Witness ==
  /\ last.obs.blink_called /\ last.obs.closed /\ ~last.obs.is_blink
  /\ mono.sustained
  /\ closure >= 0 /\ now - closure >= 600
  /\ nframes = 4

\* C29: whenever a per-frame call returns a result with face_detected
\* false and an error field, recent_predictions, blink_history and
\* distance_history are what they were before the call.
C29_ErrorLeavesTrackState ==
  (Returned /\ ~result.face_detected /\ "error" \in DOMAIN result) =>
    /\ det.recent_predictions = before.recent_predictions
    /\ det.blink_history = before.blink_history
    /\ det.distance_history = before.distance_history

\* C30: once the leave API call and the WebSocket disconnect of a student
\* have both been handled, the teacher has been sent exactly one
\* student_leave message for that student, in whatever order the two were
\* handled.
C30_ExactlyOneLeave ==
  \A s \in Subjects :
    (leaveApi[s] = "done" /\ wsConn[s] = "closed") => inbox[s] = 1

====
